---- MODULE Spec2Model ----
(***************************************************************************)
(* Model of arcane-cli (src/src/main.rs): the command-to-frame encoder     *)
(* parse_write and the interactive session loop of main.                   *)
(*                                                                         *)
(* Text is a sequence of one-character strings.  A u64 is a sequence of    *)
(* four 16-bit limbs, least significant first, so that decimal parsing     *)
(* and to_be_bytes are both computed and neither is the identity.          *)
(***************************************************************************)
EXTENDS Integers, Sequences, FiniteSets, TLC

VARIABLES pc, command, enc_arg, result, written, printed

vars == <<pc, command, enc_arg, result, written, printed>>

----------------------------------------------------------------------------
(* Bounds of the input space *)

\* largest number of tokens in a generated input line
MaxTokens == 5

\* longest run of whitespace between two tokens of a generated line
MaxSep == 2

----------------------------------------------------------------------------
(* Program constants *)

PartsLen == 4

FunctionCode == 7

MaxPayload == 7

FrameLen == 11

ERR_FORMAT == "Invalid command format"

ERR_FIELD == "Invalid node_id, param_index, or param_value"

ERR_PAYLOAD == "Payload exceeds maximum length of 7 bytes"

----------------------------------------------------------------------------
(* str helpers of the standard library, as the code uses them *)

\* a split on the space character alone, as str::split(' ') would do
is_space(c) == c = " "

is_whitespace(c) == c \in {" ", "\t", "\n", "\r"}

RECURSIVE SplitFrom(_, _, _, _)
SplitFrom(s, i, cur, acc) ==
    IF i > Len(s)
    THEN IF cur = <<>> THEN acc ELSE Append(acc, cur)
    ELSE IF is_whitespace(s[i])
         THEN SplitFrom(s, i + 1, <<>>, IF cur = <<>> THEN acc ELSE Append(acc, cur))
         ELSE SplitFrom(s, i + 1, Append(cur, s[i]), acc)

split_whitespace(s) == SplitFrom(s, 1, <<>>, <<>>)

\* str::trim, which also drops leading whitespace
RECURSIVE trim(_)
trim(s) ==
    IF s # <<>> /\ is_whitespace(s[1]) THEN trim(Tail(s))
    ELSE IF s # <<>> /\ is_whitespace(s[Len(s)])
         THEN trim(SubSeq(s, 1, Len(s) - 1))
         ELSE s

RECURSIVE trim_end(_)
trim_end(s) ==
    IF s # <<>> /\ is_whitespace(s[Len(s)])
    THEN trim_end(SubSeq(s, 1, Len(s) - 1))
    ELSE s

starts_with(s, p) == Len(s) >= Len(p) /\ SubSeq(s, 1, Len(p)) = p

----------------------------------------------------------------------------
(* Integer parsing: str::parse::<u8>() and str::parse::<u64>() *)

DigitChars == {"0", "1", "2", "3", "4", "5", "6", "7", "8", "9"}

to_digit(c) ==
    CASE c = "0" -> 0 [] c = "1" -> 1 [] c = "2" -> 2 [] c = "3" -> 3
      [] c = "4" -> 4 [] c = "5" -> 5 [] c = "6" -> 6 [] c = "7" -> 7
      [] c = "8" -> 8 [] c = "9" -> 9

\* an unsigned parse accepts one leading "+", never a "-", and needs a digit
digits_of(tok) == IF tok # <<>> /\ tok[1] = "+" THEN Tail(tok) ELSE tok

well_formed(tok) ==
    LET d == digits_of(tok)
    IN  d # <<>> /\ \A i \in 1..Len(d) : d[i] \in DigitChars

ParseErr == [ok |-> FALSE, val |-> 0]

RECURSIVE AccU8(_, _, _)
AccU8(d, i, acc) ==
    IF i > Len(d) THEN [ok |-> TRUE, val |-> acc]
    ELSE LET next == acc * 10 + to_digit(d[i])
         IN  IF next > 255 THEN ParseErr ELSE AccU8(d, i + 1, next)

parse_u8(tok) == IF well_formed(tok) THEN AccU8(digits_of(tok), 1, 0) ELSE ParseErr

LimbBase == 65536

ZeroU64 == <<0, 0, 0, 0>>

\* v * 10 + d on four 16-bit limbs; the carry out of the top limb is overflow
MulAdd(v, d) ==
    LET t1 == v[1] * 10 + d
        t2 == v[2] * 10 + (t1 \div LimbBase)
        t3 == v[3] * 10 + (t2 \div LimbBase)
        t4 == v[4] * 10 + (t3 \div LimbBase)
    IN  [carry |-> t4 \div LimbBase,
         val   |-> <<t1 % LimbBase, t2 % LimbBase, t3 % LimbBase, t4 % LimbBase>>]

RECURSIVE AccU64(_, _, _)
AccU64(d, i, acc) ==
    IF i > Len(d) THEN [ok |-> TRUE, val |-> acc]
    ELSE LET next == MulAdd(acc, to_digit(d[i]))
         IN  IF next.carry # 0 THEN [ok |-> FALSE, val |-> ZeroU64]
             ELSE AccU64(d, i + 1, next.val)

parse_u64(tok) ==
    IF well_formed(tok) THEN AccU64(digits_of(tok), 1, ZeroU64)
    ELSE [ok |-> FALSE, val |-> ZeroU64]

\* u64::to_be_bytes: most significant byte first
to_be_bytes(v) ==
    <<v[4] \div 256, v[4] % 256, v[3] \div 256, v[3] % 256,
      v[2] \div 256, v[2] % 256, v[1] \div 256, v[1] % 256>>

----------------------------------------------------------------------------
(* parse_write *)

\* dropping the leading zero bytes only, as the comment on line 111 says
RECURSIVE strip_leading_zeros(_)
strip_leading_zeros(bytes) ==
    IF bytes # <<>> /\ bytes[1] = 0 THEN strip_leading_zeros(Tail(bytes)) ELSE bytes

\* Vec::retain(|&x| x != 0)
retain_nonzero(bytes) == SelectSeq(bytes, LAMBDA x : x # 0)

\* padding with the loop bound off by one
RECURSIVE pad_inclusive(_)
pad_inclusive(data) ==
    IF Len(data) <= FrameLen THEN pad_inclusive(Append(data, 0)) ELSE data

RECURSIVE pad(_)
pad(data) == IF Len(data) < FrameLen THEN pad(Append(data, 0)) ELSE data

Ok(data) == [tag |-> "Ok", data |-> data, msg |-> ""]

Err(msg) == [tag |-> "Err", data |-> <<>>, msg |-> msg]

\* a match that leaves param_index out
fields_ok_without_index(node_id, param_index, param_value) ==
    node_id.ok /\ param_value.ok

fields_ok(node_id, param_index, param_value) ==
    node_id.ok /\ param_index.ok /\ param_value.ok

parse_write(cmd) ==
    LET parts == split_whitespace(cmd)
    IN  IF Len(parts) = PartsLen
        THEN LET node_id     == parse_u8(parts[2])
                 param_index == parse_u8(parts[3])
                 param_value == parse_u64(parts[4])
             IN  IF fields_ok(node_id, param_index, param_value)
                 THEN LET value_bytes    == retain_nonzero(to_be_bytes(param_value.val))
                          payload_length == Len(value_bytes) % 256
                      IN  IF payload_length > MaxPayload
                          THEN Err(ERR_PAYLOAD)
                          ELSE Ok(pad(<<FunctionCode, node_id.val, param_index.val>>
                                      \o <<payload_length>> \o value_bytes))
                 ELSE Err(ERR_FIELD)
        ELSE Err(ERR_FORMAT)

----------------------------------------------------------------------------
(* Input lines *)

WRITE == <<"w", "r", "i", "t", "e">>

READ == <<"r", "e", "a", "d">>

HELP == <<"h", "e", "l", "p">>

Token0s ==
    {WRITE, READ, HELP, <<"x">>,
     <<"w", "r", "i", "t", "e", "l", "n">>, <<"W", "r", "i", "t", "e">>}

NodeTokens ==
    {<<"1">>,
     <<"2", "5", "5">>,
     <<"2", "5", "6">>,
     <<"a", "b", "c">>,
     <<"+", "7">>}

IndexTokens ==
    {<<"1">>,
     <<"2">>,
     <<"2", "5", "5">>,
     <<"-", "1">>}

\* 0, 0x0237, 0xff, 0x0100, 0x010000, 0x01000001, 0x01010101010101,
\* 2^56 - 1, 2^56, 2^56 + 1, 0x0101010101010101, 2^64 - 1, 2^64, > 2^64,
\* and tokens that are not unsigned decimal numbers
ValueTokens ==
    {<<"0">>,
     <<"5", "6", "7">>,
     <<"2", "5", "5">>,
     <<"2", "5", "6">>,
     <<"6", "5", "5", "3", "6">>,
     <<"1", "6", "7", "7", "7", "2", "1", "7">>,
     <<"2", "8", "2", "5", "7", "8", "8", "0", "0", "1", "4", "8", "7", "3", "7">>,
     <<"7", "2", "0", "5", "7", "5", "9", "4", "0", "3", "7", "9", "2", "7", "9", "3", "5">>,
     <<"7", "2", "0", "5", "7", "5", "9", "4", "0", "3", "7", "9", "2", "7", "9", "3", "6">>,
     <<"7", "2", "0", "5", "7", "5", "9", "4", "0", "3", "7", "9", "2", "7", "9", "3", "7">>,
     <<"7", "2", "3", "4", "0", "1", "7", "2", "8", "3", "8", "0", "7", "6", "6", "7", "3">>,
     <<"1", "8", "4", "4", "6", "7", "4", "4", "0", "7", "3", "7", "0", "9", "5", "5", "1", "6", "1", "5">>,
     <<"1", "8", "4", "4", "6", "7", "4", "4", "0", "7", "3", "7", "0", "9", "5", "5", "1", "6", "1", "6">>,
     <<"9", "9", "9", "9", "9", "9", "9", "9", "9", "9", "9", "9", "9", "9", "9", "9", "9", "9", "9", "9">>,
     <<"-", "1">>,
     <<"a", "b", "c">>,
     <<"+", "5">>,
     <<"0", "0", "7">>,
     <<"5", "a">>}

\* token sequences of every length 0..MaxTokens: t0 1 2 567 9 9 ..., and the
\* same with fields that are no numbers: t0 abc -1 5a 9 9 ...
FillerToken(i, numeric) ==
    CASE i = 2 -> IF numeric THEN <<"1">> ELSE <<"a", "b", "c">>
      [] i = 3 -> IF numeric THEN <<"2">> ELSE <<"-", "1">>
      [] i = 4 -> IF numeric THEN <<"5", "6", "7">> ELSE <<"5", "a">>
      [] OTHER -> <<"9">>

ShortOrLong ==
    { [i \in 1..k |-> IF i = 1 THEN t0 ELSE FillerToken(i, numeric)] :
          k \in 0..MaxTokens, t0 \in Token0s, numeric \in BOOLEAN }

FourTokens ==
    { <<t0, n, x, v>> :
          t0 \in Token0s, n \in NodeTokens, x \in IndexTokens, v \in ValueTokens }

TokenSeqs == ShortOrLong \cup FourTokens

\* one space, or a run of two or more tabs
Separators == { [i \in 1..n |-> IF n = 1 THEN " " ELSE "\t"] : n \in 1..MaxSep }

Leads == {<<>>, <<" ">>}

Trails == {<<>>, <<"\n">>}

RECURSIVE Join(_, _)
Join(toks, sep) ==
    IF toks = <<>> THEN <<>>
    ELSE IF Len(toks) = 1 THEN toks[1]
         ELSE toks[1] \o sep \o Join(Tail(toks), sep)

Lines ==
    { lead \o Join(toks, sep) \o trail :
          lead \in Leads, toks \in TokenSeqs, sep \in Separators, trail \in Trails }

NoResult == [tag |-> "None", data |-> <<>>, msg |-> ""]

NoArg == <<"(not called)">>

----------------------------------------------------------------------------
(* The encoder on its own: parse_write applied to any line *)

EncInit ==
    /\ pc = "call"
    /\ command \in Lines
    /\ enc_arg = NoArg
    /\ result = NoResult
    /\ written = <<>>
    /\ printed = <<>>

CallParseWrite ==
    /\ pc = "call"
    /\ enc_arg' = command
    /\ result' = parse_write(command)
    /\ pc' = "returned"
    /\ UNCHANGED <<command, written, printed>>

EncNext == CallParseWrite

SpecEnc == EncInit /\ [][EncNext]_vars

----------------------------------------------------------------------------
(* The session: main *)

StartupCommand ==
    WRITE \o <<" ">> \o <<"1">> \o <<" ">> \o <<"2">> \o <<" ">> \o <<"5", "6", "7">>

MSG_PARSED == "parsed command"

MSG_PROMPT == "Please enter an ARCANE configuration command"

MSG_HELP ==
    <<"available commands:",
      "write <node_id> <param_index> <param_value>",
      "read  <node_id> <param_index> <param_value>">>

MSG_READ == "read not implemented yet!"

MSG_UNKNOWN == "unknown command..."

MSG_ERROR == "Error: "

CTX_PORTS == "No ports found!"

CTX_HUB == "No hub found"

CTX_OPEN == "Failed to open serial port"

CTX_STDIN == "Can't read from stdin"

CTX_WRITE == "Write failed!"

TEST_OUTPUT ==
    <<"T", "h", "i", "s", " ", "i", "s", " ", "a", " ", "t", "e", "s", "t">>

\* str::as_bytes on the ASCII text the program sends
ascii(c) ==
    CASE c = " " -> 32 [] c = "T" -> 84 [] c = "a" -> 97 [] c = "e" -> 101
      [] c = "h" -> 104 [] c = "i" -> 105 [] c = "s" -> 115 [] c = "t" -> 116

as_bytes(s) == [i \in 1..Len(s) |-> ascii(s[i])]

classify(line) ==
    LET cmd == trim_end(line)
    IN  IF cmd = HELP THEN "help"
        ELSE IF starts_with(cmd, READ) THEN "read"
        ELSE IF starts_with(cmd, WRITE) THEN "write"
        ELSE "unknown"

Init ==
    /\ pc = "start"
    /\ command = <<>>
    /\ enc_arg = NoArg
    /\ result = NoResult
    /\ written = <<>>
    /\ printed = <<>>

\* line 15
Startup ==
    /\ pc = "start"
    /\ enc_arg' = StartupCommand
    /\ result' = parse_write(StartupCommand)
    /\ IF result'.tag = "Ok"
       THEN printed' = <<MSG_PARSED>> /\ pc' = "ports"
       ELSE printed' = <<result'.msg>> /\ pc' = "exited"
    /\ UNCHANGED <<command, written>>

\* lines 17-37: port discovery and opening, each step fallible
OpenPort ==
    /\ pc = "ports"
    /\ \E outcome \in {"opened", CTX_PORTS, CTX_HUB, CTX_OPEN} :
          IF outcome = "opened"
          THEN printed' = <<"Welcome to the ARCANE console!">> /\ pc' = "prompt"
          ELSE printed' = <<outcome>> /\ pc' = "exited"
    /\ UNCHANGED <<command, enc_arg, result, written>>

\* lines 40-43
Prompt ==
    /\ pc = "prompt"
    /\ \E flushed \in BOOLEAN :
          pc' = IF flushed THEN "read_line" ELSE "exited"
    /\ printed' = <<MSG_PROMPT>>
    /\ enc_arg' = NoArg
    /\ result' = NoResult
    /\ UNCHANGED <<command, written>>

\* lines 45-48
ReadLine ==
    /\ pc = "read_line"
    /\ \E ok \in BOOLEAN, line \in Lines :
          IF ok
          THEN /\ command' = line
               /\ printed' = <<>>
               /\ pc' = "dispatch"
          ELSE /\ command' = <<>>
               /\ printed' = <<CTX_STDIN>>
               /\ pc' = "exited"
    /\ UNCHANGED <<enc_arg, result, written>>

\* lines 50-64
Dispatch ==
    /\ pc = "dispatch"
    /\ LET class == classify(command)
       IN  CASE class = "help" ->
                  /\ printed' = MSG_HELP
                  /\ pc' = "test_write"
                  /\ UNCHANGED <<enc_arg, result, written>>
             [] class = "read" ->
                  /\ printed' = <<MSG_READ>>
                  /\ pc' = "test_write"
                  /\ UNCHANGED <<enc_arg, result, written>>
             [] class = "write" ->
                  /\ enc_arg' = command
                  /\ result' = parse_write(command)
                  /\ IF result'.tag = "Ok"
                     THEN \E ok \in BOOLEAN :
                             IF ok
                             THEN /\ written' = Append(written, result'.data)
                                  /\ printed' = <<>>
                                  /\ pc' = "test_write"
                             ELSE /\ written' = written
                                  /\ printed' = <<CTX_WRITE>>
                                  /\ pc' = "exited"
                     ELSE /\ printed' = <<MSG_ERROR, result'.msg>>
                          /\ written' = written
                          /\ pc' = "test_write"
             [] OTHER ->
                  /\ printed' = <<MSG_UNKNOWN>>
                  /\ pc' = "test_write"
                  /\ UNCHANGED <<enc_arg, result, written>>
    /\ UNCHANGED command

\* lines 66-67
TestWrite ==
    /\ pc = "test_write"
    /\ \E ok \in BOOLEAN :
          IF ok
          THEN /\ written' = Append(written, as_bytes(TEST_OUTPUT))
               /\ printed' = printed
               /\ pc' = "read_back"
          ELSE /\ written' = written
               /\ printed' = Append(printed, CTX_WRITE)
               /\ pc' = "exited"
    /\ UNCHANGED <<command, enc_arg, result>>

\* lines 69-76: sleep, best-effort read whose failure is dropped, sleep
\* the iteration ends here: its locals are dropped before the next prompt
ReadBack ==
    /\ pc = "read_back"
    /\ pc' = "prompt"
    /\ command' = <<>>
    /\ enc_arg' = NoArg
    /\ result' = NoResult
    /\ written' = <<>>
    /\ printed' = <<>>

Next ==
    \/ Startup
    \/ OpenPort
    \/ Prompt
    \/ ReadLine
    \/ Dispatch
    \/ TestWrite
    \/ ReadBack

Spec == Init /\ [][Next]_vars

----------------------------------------------------------------------------
(* Vocabulary of the properties, stated on the decimal text of the tokens   *)
(* and not through the parser of the model                                  *)

WhiteSpace == {" ", "\t", "\n", "\r"}

TokenCount(s) ==
    Cardinality({ i \in 1..Len(s) :
                    /\ s[i] \notin WhiteSpace
                    /\ (i = 1 \/ s[i - 1] \in WhiteSpace) })

Token(k) == split_whitespace(command)[k]

TrimmedEnd(s) ==
    LET keep == { i \in 1..Len(s) : s[i] \notin WhiteSpace }
    IN  IF keep = {} THEN <<>>
        ELSE SubSeq(s, 1, CHOOSE i \in keep : \A j \in keep : j <= i)

HasPrefix(s, p) == Len(s) >= Len(p) /\ \A i \in 1..Len(p) : s[i] = p[i]

Numeral(tok) ==
    LET d == IF tok # <<>> /\ tok[1] = "+" THEN Tail(tok) ELSE tok
    IN  d # <<>> /\ \A i \in 1..Len(d) : d[i] \in DigitChars

RECURSIVE StripZeros(_)
StripZeros(d) == IF d # <<>> /\ d[1] = "0" THEN StripZeros(Tail(d)) ELSE d

\* the significant decimal digits of a numeral, most significant first
Significant(tok) ==
    StripZeros(IF tok[1] = "+" THEN Tail(tok) ELSE tok)

\* a <= b for digit strings without leading zeros
DecLeq(a, b) ==
    \/ Len(a) < Len(b)
    \/ /\ Len(a) = Len(b)
       /\ \/ a = b
          \/ \E i \in 1..Len(a) :
                /\ to_digit(a[i]) < to_digit(b[i])
                /\ \A j \in 1..(i - 1) : a[j] = b[j]

U8_MAX == <<"2", "5", "5">>

U64_MAX ==
    <<"1", "8", "4", "4", "6", "7", "4", "4", "0", "7",
      "3", "7", "0", "9", "5", "5", "1", "6", "1", "5">>

\* 2^56 - 1
PAYLOAD_MAX ==
    <<"7", "2", "0", "5", "7", "5", "9", "4", "0", "3", "7", "9", "2", "7", "9", "3", "5">>

FitsU8(tok) == Numeral(tok) /\ DecLeq(Significant(tok), U8_MAX)

FitsU64(tok) == Numeral(tok) /\ DecLeq(Significant(tok), U64_MAX)

FitsPayload(tok) == Numeral(tok) /\ DecLeq(Significant(tok), PAYLOAD_MAX)

\* the number a small numeral denotes
RECURSIVE SmallValue(_)
SmallValue(d) ==
    IF d = <<>> THEN 0
    ELSE SmallValue(SubSeq(d, 1, Len(d) - 1)) * 10 + to_digit(d[Len(d)])

U8Value(tok) == SmallValue(Significant(tok))

\* ds * 256 + carry on decimal digits, least significant first
RECURSIVE DecMulAdd(_, _, _)
DecMulAdd(ds, i, carry) ==
    IF i > Len(ds)
    THEN IF carry = 0 THEN <<>>
         ELSE <<carry % 10>> \o DecMulAdd(ds, i, carry \div 10)
    ELSE LET t == ds[i] * 256 + carry
         IN  <<t % 10>> \o DecMulAdd(ds, i + 1, t \div 10)

\* a byte string read as a big-endian unsigned integer, in decimal digits,
\* least significant first, zero being the empty string
RECURSIVE DecodeBE(_)
DecodeBE(bytes) ==
    IF bytes = <<>> THEN <<>>
    ELSE DecMulAdd(DecodeBE(SubSeq(bytes, 1, Len(bytes) - 1)), 1, bytes[Len(bytes)])

\* the number a numeral denotes, in the same form
DecimalValue(tok) ==
    LET z == Significant(tok)
    IN  [i \in 1..Len(z) |-> to_digit(z[Len(z) + 1 - i])]

Payload(data) == SubSeq(data, 5, 4 + data[4])

Returned == pc = "returned"

FourTokenCall == Returned /\ TokenCount(command) = 4

ValidFields == FitsU8(Token(2)) /\ FitsU8(Token(3)) /\ FitsU64(Token(4))

----------------------------------------------------------------------------
(* Properties of the encoder, checked under SpecEnc *)

\* C1: for a 4-token command with valid u8 node_id and param_index and a
\* param_value in [0, 2^56 - 1], parse_write succeeds and the payload
\* data[4 .. 4+data[3]], read as a big-endian unsigned integer, equals
\* param_value.
C1_RoundTrip ==
    (FourTokenCall /\ FitsU8(Token(2)) /\ FitsU8(Token(3)) /\ FitsPayload(Token(4)))
        => /\ result.tag = "Ok"
           /\ DecodeBE(Payload(result.data)) = DecimalValue(Token(4))

\* C2: with valid u8 fields and a param_value that parses as u64, parse_write
\* fails with PayloadTooLarge for every value in [2^56, 2^64 - 1] and succeeds
\* for every value in [0, 2^56 - 1], 2^56 - 1 giving payload_length 7.
C2_TooLargeFrom2Pow56 ==
    (FourTokenCall /\ ValidFields)
        => IF FitsPayload(Token(4))
           THEN /\ result.tag = "Ok"
                /\ (Significant(Token(4)) = PAYLOAD_MAX => result.data[4] = 7)
           ELSE result = Err(ERR_PAYLOAD)

C4_MalformedIffNotFourTokens ==
    Returned
        => /\ (result = Err(ERR_FORMAT)) <=> (TokenCount(command) # 4)
           /\ (TokenCount(command) # 4 => result.data = <<>>)
           /\ (TokenCount(command) = 4 =>
                 result = parse_write(WRITE \o <<" ">> \o Token(2) \o <<" ">>
                                      \o Token(3) \o <<" ">> \o Token(4)))

C4_Witness ==
    /\ Returned
    /\ TokenCount(command) = 4
    /\ Token(1) = <<"x">>
    /\ Len(split_whitespace(command)) = 4
    /\ \E i \in 1..Len(command) : command[i] = "\t"
    /\ result.tag = "Ok"

\* C5: a 4-token command with at least one of the three numeric tokens
\* non-numeric or out of range fails with InvalidField, whatever the other
\* two are, and returns no frame.
C5_InvalidField ==
    (FourTokenCall /\ ~ValidFields)
        => /\ result = Err(ERR_FIELD)
           /\ result.data = <<>>

C5_Witness ==
    /\ FourTokenCall
    /\ FitsU8(Token(2))
    /\ ~FitsU8(Token(3))
    /\ FitsU64(Token(4))
    /\ ~FitsPayload(Token(4))
    /\ result.msg = ERR_FIELD

DocCommand ==
    WRITE \o <<" ">> \o <<"1">> \o <<" ">> \o <<"1">> \o <<" ">> \o <<"5", "6", "7">>

\* C8: as the doc comment of parse_write states, parse_write("write 1 1 567")
\* returns [0x01, 0x01, 0x01, 0x02, 0x02, 0x37, 0, 0, 0, 0, 0]: the function
\* code byte of a write frame is 0x01.
C8_DocExample ==
    (Returned /\ command = DocCommand)
        => result = Ok(<<1, 1, 1, 2, 2, 55, 0, 0, 0, 0, 0>>)

NonZeroAt(bytes) == { i \in 1..Len(bytes) : bytes[i] # 0 }

\* the j-th non-zero byte of bytes, in their order
NthNonZero(bytes, j) ==
    LET nz == NonZeroAt(bytes)
    IN  bytes[CHOOSE i \in nz : Cardinality({ k \in nz : k < i }) = j - 1]

----------------------------------------------------------------------------
(* Properties of the session, checked under Spec *)

WriteLine == HasPrefix(TrimmedEnd(command), WRITE)

\* C6: bytes are written to the transport for an input line exactly when the
\* line is a write-prefixed command that encodes, and then exactly the frame;
\* for every other line the session only prints a message.
C6_OnlyFramesWritten ==
    pc = "read_back"
        => written = IF WriteLine /\ parse_write(command).tag = "Ok"
                     THEN <<parse_write(command).data>>
                     ELSE <<>>

\* C7: an encoder failure never ends the session: once parse_write has
\* returned an error for a line, no step of the processing of that line
\* ends the process.
C7_EncodeErrorNeverExits ==
    [][(/\ pc \in {"dispatch", "test_write", "read_back"}
        /\ WriteLine
        /\ parse_write(command).tag = "Err")
          => pc' # "exited"]_vars

\* C9: a line is classified on its text without trailing whitespace as help
\* (equal to help), read (prefix read), write (prefix write) or unknown; help
\* prints the help text, read reports not implemented, write hands the full
\* raw line to parse_write, anything else is reported unknown, and the
\* encoder is called exactly for the write class.
C9_Dispatch ==
    pc \in {"test_write", "read_back"}
        => LET t == TrimmedEnd(command)
           IN  /\ (enc_arg # NoArg) <=> HasPrefix(t, WRITE)
               /\ (result # NoResult) <=> HasPrefix(t, WRITE)
               /\ CASE t = HELP -> SubSeq(printed, 1, 3) = MSG_HELP
                    [] HasPrefix(t, READ) -> printed[1] = MSG_READ
                    [] HasPrefix(t, WRITE) ->
                         /\ enc_arg = command
                         /\ result = parse_write(command)
                         /\ printed = IF result.tag = "Ok" THEN <<>>
                                      ELSE <<MSG_ERROR, result.msg>>
                    [] OTHER -> printed[1] = MSG_UNKNOWN

C9_Witness ==
    /\ pc = "test_write"
    /\ command # <<>>
    /\ command[1] = " "
    /\ TokenCount(command) = 4
    /\ Token(1) = WRITE
    /\ printed = <<MSG_UNKNOWN>>
    /\ enc_arg = NoArg

====
